---------------------------- MODULE Spec2Model ----------------------------
(***************************************************************************)
(* Model of the event-sourced lead pipeline of DataGator                   *)
(* (src/services/py/main.py, src/services/py/database.py): the event       *)
(* store, the task queue, the Lead and CampaignStat projections, the       *)
(* background worker loop and the two request handlers that feed them.     *)
(*                                                                         *)
(* Rows of a table are kept in insertion order; the position of a row is   *)
(* its primary key and stands for its uuid (event_id, task_id, lead_id).   *)
(* datetime.utcnow() is the variable now, which only moves forward and     *)
(* may stay the same between two calls.                                    *)
(*                                                                         *)
(* Taken as given: integrations.json is well formed, and money amounts     *)
(* are integers.  In Spec a request handler is one step and the worker     *)
(* loop is cut at the awaits between its status writes and the handler,    *)
(* with every commit succeeding.  SpecSteps cuts the request handlers and  *)
(* the send-to-CRM handler at each commit; SpecCrash adds interrupted      *)
(* requests, SpecFaults storage errors and restarts in the worker loop,    *)
(* SpecStatsRace two CampaignService calls whose read and write are steps  *)
(* of their own.                                                           *)
(***************************************************************************)
EXTENDS Integers, Sequences, FiniteSets, TLC

(* ------------------------------ bounds -------------------------------- *)
MaxTime == 1
MaxLeads == 1
MaxPayments == 1
MaxQueue == 2
MaxDelay == 1
MaxTransitions == 2
MaxLimit == 2
MaxLog == 3
MaxCalls == 3

(* ------------------------- program constants -------------------------- *)
DefaultMaxAttempts == 3
BatchLimit == 5
NoneInt == -1
NoneStr == "None"

Workers == {"w1", "w2"}
Slots == {"r1", "r2"}
Campaigns == {"c1", "c2"}
Landings == {"l1", "l2"}
Amounts == {50, 100}
Aggregates == {1, 2}

PENDING == "pending"
PROCESSING == "processing"
COMPLETED == "completed"
FAILED == "failed"
TaskStatus == {PENDING, PROCESSING, COMPLETED, FAILED}

SEND_TO_CRM == "send_to_crm"
SEND_TO_YANDEX_DIRECT == "send_to_yandex_direct"

LEAD_CREATED == "lead_created"
LEAD_SENT_TO_CRM == "lead_sent_to_crm"
PAYMENT_REGISTERED == "payment_registered"
YANDEX_DIRECT_CONVERSION == "yandex_direct_conversion"

VARIABLES
    now,          \* datetime.utcnow()
    events,       \* table Event, in insertion order
    tasks,        \* table Task, in insertion order
    leads,        \* table Lead, in insertion order
    stats,        \* table CampaignStat, in insertion order
    pc,           \* per worker loop: where background_task_processor stands
    batch,        \* per worker loop: the Task objects its poll loaded, still to finish
    outcome,      \* per worker loop: how the handler of the task in hand ended
    answer,       \* per worker loop: the status code that handler got from its adapter
    executions,   \* history: per task, how many times a handler was started for it
    transitions,  \* history: per task, how many update_task_status calls succeeded
    ret,          \* the last call made on a service and what it returned
    calls,        \* history: per campaign, the increment calls made so far
    flight        \* per request slot: the request being handled and how far it got

vars == <<now, events, tasks, leads, stats, pc, batch, outcome, answer,
          executions, transitions, ret, calls, flight>>

(* ------------------------------ helpers ------------------------------- *)
Range(s) == {s[i] : i \in 1..Len(s)}

Min(a, b) == IF a <= b THEN a ELSE b

Take(s, n) == SubSeq(s, 1, Min(n, Len(s)))

\* every arrangement of the finite set S as a sequence without repetition
Perms(S) ==
    {p \in [1..Cardinality(S) -> S] : \A i, j \in 1..Cardinality(S) : p[i] = p[j] => i = j}

NoRet == [op |-> "none", arg |-> 0, result |-> <<>>, raised |-> FALSE]


(* ----------------------- integrations.json ---------------------------- *)
\* The configuration file is read-only input.  This instance maps landing l1
\* to a CRM with an endpoint, campaign c2 to another one, has a default_crm
\* without endpoint, and holds ad-platform wiring for campaign c1 only.
landing_crm_mappings == [l1 |-> "crm1", l2 |-> NoneStr]
campaign_crm_mappings == [c1 |-> NoneStr, c2 |-> "crm2"]
yandex_campaigns == {"c1"}

\* mutant: the campaign mappings are not consulted
get_crm_config_landing_only(landing_id, campaign_id) ==
    IF landing_crm_mappings[landing_id] # NoneStr
    THEN landing_crm_mappings[landing_id]
    ELSE NoneStr

\* the crm_id of the configuration chosen for a landing/campaign, NoneStr for
\* the default configuration (whose api_endpoint is empty)
get_crm_config(landing_id, campaign_id) ==
    IF landing_crm_mappings[landing_id] # NoneStr
    THEN landing_crm_mappings[landing_id]
    ELSE IF campaign_id # NoneStr /\ campaign_crm_mappings[campaign_id] # NoneStr
         THEN campaign_crm_mappings[campaign_id]
         ELSE NoneStr

\* an Outcome of an adapter call: a transport failure is reported as 500
StatusCodes == {200, 404, 500}
Is2xx(code) == 200 <= code /\ code < 300

(* ----------------------------- EventStore ------------------------------ *)
NoPayload == [campaign_id |-> NoneStr, amount |-> NoneInt]

\* mutant: keeps one row per aggregate, overwriting its previous event
save_event_overwrite(es, t, aggregate_id, event_type, payload) ==
    LET new == [aggregate_id |-> aggregate_id, event_type |-> event_type,
                payload |-> payload, version |-> 1, created_at |-> t]
        mine == {i \in 1..Len(es) : es[i].aggregate_id = aggregate_id}
    IN IF mine = {} THEN Append(es, new)
       ELSE [es EXCEPT ![CHOOSE i \in mine : TRUE] = new]

save_event(es, t, aggregate_id, event_type, payload) ==
    Append(es, [aggregate_id |-> aggregate_id,
                event_type   |-> event_type,
                payload      |-> payload,
                version      |-> 1,
                created_at   |-> t])

\* ORDER BY created_at alone: rows with equal created_at come in an order
\* the database chooses, so the call has a set of possible results (each a
\* sequence of event rows, named by their position in the table)
get_events_by_aggregate(es, aggregate_id) ==
    LET mine == {i \in 1..Len(es) : es[i].aggregate_id = aggregate_id}
    IN {p \in Perms(mine) :
          \A i, j \in 1..Len(p) : i < j => es[p[i]].created_at <= es[p[j]].created_at}

get_event_count(es) == Len(es)

(* ------------------------------ TaskQueue ------------------------------ *)
create_task_no_delay(ts, t, task_type, payload, delay_seconds) ==
    Append(ts, [task_type     |-> task_type,
                payload       |-> payload,
                status        |-> PENDING,
                attempts      |-> 0,
                max_attempts  |-> DefaultMaxAttempts,
                error_message |-> NoneStr,
                result        |-> NoneStr,
                scheduled_at  |-> t,
                started_at    |-> NoneInt,
                completed_at  |-> NoneInt])

create_task(ts, t, task_type, payload, delay_seconds) ==
    Append(ts, [task_type     |-> task_type,
                payload       |-> payload,
                status        |-> PENDING,
                attempts      |-> 0,
                max_attempts  |-> DefaultMaxAttempts,
                error_message |-> NoneStr,
                result        |-> NoneStr,
                scheduled_at  |-> t + delay_seconds,
                started_at    |-> NoneInt,
                completed_at  |-> NoneInt])

\* the rows the WHERE clause keeps
Eligible(ts, t) ==
    {i \in 1..Len(ts) : ts[i].status = PENDING /\ ts[i].scheduled_at <= t}

\* mutant: the WHERE clause also takes the tasks left in processing
get_pending_tasks_reclaim(ts, t, limit) ==
    {Take(p, limit) : p \in
        {q \in Perms({i \in 1..Len(ts) : /\ ts[i].status \in {PENDING, PROCESSING}
                                         /\ ts[i].scheduled_at <= t}) :
            \A i, j \in 1..Len(q) : i < j => ts[q[i]].scheduled_at <= ts[q[j]].scheduled_at}}

\* mutant: the WHERE clause also asks for a task that was never started
get_pending_tasks_fresh_only(ts, t, limit) ==
    {Take(p, limit) : p \in
        {q \in Perms({i \in Eligible(ts, t) : ts[i].attempts = 0}) :
            \A i, j \in 1..Len(q) : i < j => ts[q[i]].scheduled_at <= ts[q[j]].scheduled_at}}

\* mutant: the WHERE clause without the status test
get_pending_tasks_any_status(ts, t, limit) ==
    {Take(p, limit) : p \in
        {q \in Perms({i \in 1..Len(ts) : ts[i].scheduled_at <= t}) :
            \A i, j \in 1..Len(q) : i < j => ts[q[i]].scheduled_at <= ts[q[j]].scheduled_at}}

\* mutant: the WHERE clause without the scheduled_at test
get_pending_tasks_any_time(ts, t, limit) ==
    {Take(p, limit) : p \in
        {q \in Perms({i \in 1..Len(ts) : ts[i].status = PENDING}) :
            \A i, j \in 1..Len(q) : i < j => ts[q[i]].scheduled_at <= ts[q[j]].scheduled_at}}

\* ORDER BY scheduled_at LIMIT limit: the possible results, each a sequence
\* of task rows; rows with equal scheduled_at come in an order the database
\* chooses.  Nothing is written: the rows stay pending.
get_pending_tasks(ts, t, limit) ==
    {Take(p, limit) : p \in
        {q \in Perms(Eligible(ts, t)) :
            \A i, j \in 1..Len(q) : i < j => ts[q[i]].scheduled_at <= ts[q[j]].scheduled_at}}

\* the Task object a session holds for a row: loaded once, then the same
\* object is returned by every later query of that session
TaskObject(ts, id) == [id |-> id, attempts |-> ts[id].attempts]

\* scalar_one_or_none: the empty sequence for None
get_task_by_id(ts, id) ==
    IF id \in 1..Len(ts) THEN <<TaskObject(ts, id)>> ELSE <<>>

\* mutant: counts an attempt only when an execution starts
update_task_status_count_starts(ts, t, task, status, error_message, result) ==
    LET row == [ts[task.id] EXCEPT !.status = status,
                                   !.attempts = IF status = PROCESSING
                                                THEN task.attempts + 1 ELSE task.attempts]
    IN [ts EXCEPT ![task.id] =
          IF status = PROCESSING THEN [row EXCEPT !.started_at = t]
          ELSE IF status = COMPLETED
               THEN [row EXCEPT !.completed_at = t, !.result = result]
          ELSE IF status = FAILED
               THEN [row EXCEPT !.error_message = error_message]
          ELSE row]

\* mutant: a task returned to pending is pushed back and keeps the error
update_task_status_retry_delay(ts, t, task, status, error_message, result) ==
    LET row == [ts[task.id] EXCEPT !.status = status,
                                   !.attempts = task.attempts + 1]
    IN [ts EXCEPT ![task.id] =
          IF status = PROCESSING THEN [row EXCEPT !.started_at = t]
          ELSE IF status = COMPLETED
               THEN [row EXCEPT !.completed_at = t, !.result = result]
          ELSE IF status = FAILED
               THEN [row EXCEPT !.error_message = error_message]
          ELSE [row EXCEPT !.scheduled_at = t + 1,
                           !.error_message = error_message]]

\* update_task_status on the object task of the caller's session (the call
\* raises ValueError before this point when the task_id is unknown)
update_task_status(ts, t, task, status, error_message, result) ==
    LET row == [ts[task.id] EXCEPT !.status = status,
                                   !.attempts = task.attempts + 1]
    IN [ts EXCEPT ![task.id] =
          IF status = PROCESSING THEN [row EXCEPT !.started_at = t]
          ELSE IF status = COMPLETED
               THEN [row EXCEPT !.completed_at = t, !.result = result]
          ELSE IF status = FAILED
               THEN [row EXCEPT !.error_message = error_message]
          ELSE row]

(* ----------------------------- LeadService ----------------------------- *)
\* mutant: the snapshot is not stored
LeadService_create_lead_unsaved(ls, landing_id, campaign_id) == ls

LeadService_create_lead(ls, landing_id, campaign_id) ==
    Append(ls, [campaign_id    |-> campaign_id,
                landing_id     |-> landing_id,
                status         |-> "new",
                crm_id         |-> NoneStr,
                payment_amount |-> NoneInt,
                payment_date   |-> NoneInt])

get_lead(ls, lead_id) ==
    IF lead_id \in 1..Len(ls) THEN <<ls[lead_id]>> ELSE <<>>

update_lead_status_upsert(ls, t, lead_id, status, crm_id, payment_data) ==
    IF lead_id \notin 1..Len(ls)
    THEN Append(ls, [campaign_id    |-> NoneStr,
                     landing_id     |-> NoneStr,
                     status         |-> status,
                     crm_id         |-> crm_id,
                     payment_amount |-> NoneInt,
                     payment_date   |-> NoneInt])
    ELSE LET a == [ls[lead_id] EXCEPT !.status = status]
             b == IF crm_id # NoneStr THEN [a EXCEPT !.crm_id = crm_id] ELSE a
             c == IF payment_data # <<>> /\ status = "paid"
                  THEN [b EXCEPT !.payment_amount = payment_data[1].amount,
                                 !.payment_date =
                                     IF payment_data[1].payment_date # NoneInt
                                     THEN payment_data[1].payment_date ELSE t]
                  ELSE b
         IN [ls EXCEPT ![lead_id] = c]

update_lead_status_any_status(ls, t, lead_id, status, crm_id, payment_data) ==
    IF lead_id \notin 1..Len(ls) THEN ls
    ELSE LET a == [ls[lead_id] EXCEPT !.status = status]
             b == IF crm_id # NoneStr THEN [a EXCEPT !.crm_id = crm_id] ELSE a
             c == IF payment_data # <<>>
                  THEN [b EXCEPT !.payment_amount = payment_data[1].amount,
                                 !.payment_date =
                                     IF payment_data[1].payment_date # NoneInt
                                     THEN payment_data[1].payment_date ELSE t]
                  ELSE b
         IN [ls EXCEPT ![lead_id] = c]

\* payment_data: <<>> for None (or an empty mapping, which Python tests as
\* false too), else <<[amount, payment_date]>> with
\* payment_date = NoneInt when the webhook supplied none.  On an unknown
\* lead_id the call returns None and writes nothing.
update_lead_status(ls, t, lead_id, status, crm_id, payment_data) ==
    IF lead_id \notin 1..Len(ls) THEN ls
    ELSE LET a == [ls[lead_id] EXCEPT !.status = status]
             b == IF crm_id # NoneStr THEN [a EXCEPT !.crm_id = crm_id] ELSE a
             c == IF payment_data # <<>> /\ status = "paid"
                  THEN [b EXCEPT !.payment_amount = payment_data[1].amount,
                                 !.payment_date =
                                     IF payment_data[1].payment_date # NoneInt
                                     THEN payment_data[1].payment_date ELSE t]
                  ELSE b
         IN [ls EXCEPT ![lead_id] = c]

(* --------------------------- CampaignService --------------------------- *)
\* the positions of the rows of a campaign
StatRows(st, campaign_id) == {i \in 1..Len(st) : st[i].campaign_id = campaign_id}

\* mutant: the first lead of a campaign creates the row without counting it
increment_lead_count_first_uncounted(st, t, campaign_id) ==
    IF StatRows(st, campaign_id) = {}
    THEN Append(st, [campaign_id     |-> campaign_id,
                     total_leads     |-> 0,
                     total_payments  |-> 0,
                     total_revenue   |-> 0,
                     last_lead_at    |-> t,
                     last_payment_at |-> NoneInt])
    ELSE LET i == CHOOSE k \in StatRows(st, campaign_id) : TRUE
         IN [st EXCEPT ![i].total_leads = @ + 1, ![i].last_lead_at = t]

increment_lead_count(st, t, campaign_id) ==
    IF StatRows(st, campaign_id) = {}
    THEN Append(st, [campaign_id     |-> campaign_id,
                     total_leads     |-> 1,
                     total_payments  |-> 0,
                     total_revenue   |-> 0,
                     last_lead_at    |-> t,
                     last_payment_at |-> NoneInt])
    ELSE LET i == CHOOSE k \in StatRows(st, campaign_id) : TRUE
         IN [st EXCEPT ![i].total_leads = @ + 1, ![i].last_lead_at = t]

\* mutant: the first payment of a campaign creates the row without its amount
increment_payment_count_first_unpaid(st, t, campaign_id, amount) ==
    IF StatRows(st, campaign_id) = {}
    THEN Append(st, [campaign_id     |-> campaign_id,
                     total_leads     |-> 0,
                     total_payments  |-> 1,
                     total_revenue   |-> 0,
                     last_lead_at    |-> NoneInt,
                     last_payment_at |-> t])
    ELSE LET i == CHOOSE k \in StatRows(st, campaign_id) : TRUE
         IN [st EXCEPT ![i].total_payments = @ + 1,
                       ![i].total_revenue = @ + amount,
                       ![i].last_payment_at = t]

increment_payment_count(st, t, campaign_id, amount) ==
    IF StatRows(st, campaign_id) = {}
    THEN Append(st, [campaign_id     |-> campaign_id,
                     total_leads     |-> 0,
                     total_payments  |-> 1,
                     total_revenue   |-> amount,
                     last_lead_at    |-> NoneInt,
                     last_payment_at |-> t])
    ELSE LET i == CHOOSE k \in StatRows(st, campaign_id) : TRUE
         IN [st EXCEPT ![i].total_payments = @ + 1,
                       ![i].total_revenue = @ + amount,
                       ![i].last_payment_at = t]


(* --------------------------- task handlers ----------------------------- *)
\* What a handler does with the adapter answering code: whether it raised,
\* and the Lead and Event tables it leaves.
process_crm_task_any_answer(ls, es, t, lead_id, crm_id, code) ==
    IF get_lead(ls, lead_id) = <<>>
    THEN [raised |-> TRUE, leads |-> ls, events |-> es]
    ELSE IF code >= 200
         THEN [raised |-> FALSE,
               leads  |-> update_lead_status(ls, t, lead_id, "sent_to_crm", crm_id, <<>>),
               events |-> save_event(es, t, lead_id, LEAD_SENT_TO_CRM, NoPayload)]
         ELSE [raised |-> TRUE, leads |-> ls, events |-> es]

process_crm_task(ls, es, t, lead_id, crm_id, code) ==
    IF get_lead(ls, lead_id) = <<>>
    THEN [raised |-> TRUE, leads |-> ls, events |-> es]
    ELSE IF Is2xx(code)
         THEN [raised |-> FALSE,
               leads  |-> update_lead_status(ls, t, lead_id, "sent_to_crm", crm_id, <<>>),
               events |-> save_event(es, t, lead_id, LEAD_SENT_TO_CRM, NoPayload)]
         ELSE [raised |-> TRUE, leads |-> ls, events |-> es]

send_conversion_unchecked(campaign_id, code) == code

\* send_conversion answers 404 by itself for a campaign without wiring
send_conversion(campaign_id, code) ==
    IF campaign_id \in yandex_campaigns THEN code ELSE 404

process_yandex_direct_task(ls, es, t, lead_id, payment_amount, code) ==
    IF get_lead(ls, lead_id) = <<>> \/ ls[lead_id].campaign_id = NoneStr
    THEN [raised |-> TRUE, leads |-> ls, events |-> es]
    ELSE IF Is2xx(send_conversion(ls[lead_id].campaign_id, code))
         THEN [raised |-> FALSE, leads |-> ls,
               events |-> save_event(es, t, lead_id, YANDEX_DIRECT_CONVERSION,
                                     [campaign_id |-> ls[lead_id].campaign_id,
                                      amount      |-> payment_amount])]
         ELSE [raised |-> FALSE, leads |-> ls, events |-> es]

RunTask(ls, es, ts, t, id, code) ==
    IF ts[id].task_type = SEND_TO_CRM
    THEN process_crm_task(ls, es, t, ts[id].payload.lead_id, ts[id].payload.crm_id, code)
    ELSE process_yandex_direct_task(ls, es, t, ts[id].payload.lead_id,
                                    ts[id].payload.payment_amount, code)

\* the status code the handler of task id gets from its adapter when the
\* remote end answers code; 0 when the handler raises before calling it
AdapterAnswer(ls, ts, id, code) ==
    LET lead_id == ts[id].payload.lead_id IN
    IF get_lead(ls, lead_id) = <<>> THEN 0
    ELSE IF ts[id].task_type = SEND_TO_CRM THEN code
    ELSE IF ls[lead_id].campaign_id = NoneStr THEN 0
    ELSE send_conversion(ls[lead_id].campaign_id, code)

\* mutant: a failed execution is never retried
StatusAfterFailure_no_retry(task, max_attempts) == FAILED

\* the except branch of the loop: the status a failed execution leaves,
\* decided on the loop's own Task object
StatusAfterFailure(task, max_attempts) ==
    IF task.attempts >= max_attempts - 1 THEN FAILED ELSE PENDING

(* ------------------------------- state --------------------------------- *)
\* a request slot with no request in it
Idle ==
    [op |-> "idle", at |-> "none", lead_id |-> 0, landing_id |-> NoneStr,
     campaign_id |-> NoneStr, payment_data |-> <<>>, seen |-> <<>>]

Init ==
    /\ now = 0
    /\ events = <<>>
    /\ tasks = <<>>
    /\ leads = <<>>
    /\ stats = <<>>
    /\ pc = [w \in Workers |-> "poll"]
    /\ batch = [w \in Workers |-> <<>>]
    /\ outcome = [w \in Workers |-> "none"]
    /\ answer = [w \in Workers |-> 0]
    /\ executions = <<>>
    /\ transitions = <<>>
    /\ ret = NoRet
    /\ calls = [c \in Campaigns |-> [leads |-> 0, payments |-> 0, revenue |-> 0]]
    /\ flight = [s \in Slots |-> Idle]

db == <<events, tasks, leads, stats>>
loops == <<pc, batch, outcome, answer>>
harness == <<ret, calls, flight>>

Tick ==
    /\ now < MaxTime
    /\ now' = now + 1
    /\ UNCHANGED <<db, loops, executions, transitions, harness>>

(* --------------------- background_task_processor ----------------------- *)
\* one iteration's poll; an empty result sends the loop to sleep and back
Poll(w) ==
    /\ pc[w] = "poll"
    /\ \E r \in get_pending_tasks(tasks, now, BatchLimit) :
          /\ batch' = [batch EXCEPT ![w] = [i \in 1..Len(r) |-> TaskObject(tasks, r[i])]]
          /\ pc' = [pc EXCEPT ![w] = IF r = <<>> THEN "poll" ELSE "claim"]
    /\ UNCHANGED <<now, db, outcome, answer, executions, transitions, harness>>

\* update_task_status(task, PROCESSING) for the next task of the batch
MarkProcessing(w) ==
    /\ pc[w] = "claim"
    /\ LET task == Head(batch[w]) IN
          /\ tasks' = update_task_status(tasks, now, task, PROCESSING, NoneStr, NoneStr)
          /\ batch' = [batch EXCEPT ![w][1].attempts = @ + 1]
          /\ transitions' = [transitions EXCEPT ![task.id] = @ + 1]
    /\ pc' = [pc EXCEPT ![w] = "handler"]
    /\ UNCHANGED <<now, events, leads, stats, outcome, answer, executions, harness>>

\* the handler of the task in hand, with the adapter answering code
RunHandler(w) ==
    /\ pc[w] = "handler"
    /\ \E code \in StatusCodes :
          LET id == Head(batch[w]).id
              r == RunTask(leads, events, tasks, now, id, code)
          IN /\ leads' = r.leads
             /\ events' = r.events
             /\ outcome' = [outcome EXCEPT ![w] = IF r.raised THEN "raised" ELSE "ok"]
             /\ answer' = [answer EXCEPT ![w] = AdapterAnswer(leads, tasks, id, code)]
             /\ executions' = [executions EXCEPT ![id] = @ + 1]
    /\ pc' = [pc EXCEPT ![w] = "finish"]
    /\ UNCHANGED <<now, tasks, stats, batch, transitions, harness>>

\* mutant: a successful execution returns the task to the queue
Finish_requeue_on_success(w) ==
    /\ pc[w] = "finish"
    /\ LET task == Head(batch[w]) IN
          /\ tasks' =
                IF outcome[w] = "ok"
                THEN update_task_status(tasks, now, task, PENDING, NoneStr, "success")
                ELSE update_task_status(tasks, now, task,
                        StatusAfterFailure(task, tasks[task.id].max_attempts),
                        "error", NoneStr)
          /\ transitions' = [transitions EXCEPT ![task.id] = @ + 1]
    /\ batch' = [batch EXCEPT ![w] = Tail(@)]
    /\ outcome' = [outcome EXCEPT ![w] = "none"]
    /\ answer' = [answer EXCEPT ![w] = 0]
    /\ pc' = [pc EXCEPT ![w] = IF Tail(batch[w]) = <<>> THEN "poll" ELSE "claim"]
    /\ UNCHANGED <<now, events, leads, stats, executions, harness>>

\* the status write that follows the handler, then on to the next task
Finish(w) ==
    /\ pc[w] = "finish"
    /\ LET task == Head(batch[w]) IN
          /\ tasks' =
                IF outcome[w] = "ok"
                THEN update_task_status(tasks, now, task, COMPLETED, NoneStr, "success")
                ELSE update_task_status(tasks, now, task,
                        StatusAfterFailure(task, tasks[task.id].max_attempts),
                        "error", NoneStr)
          /\ transitions' = [transitions EXCEPT ![task.id] = @ + 1]
    /\ batch' = [batch EXCEPT ![w] = Tail(@)]
    /\ outcome' = [outcome EXCEPT ![w] = "none"]
    /\ answer' = [answer EXCEPT ![w] = 0]
    /\ pc' = [pc EXCEPT ![w] = IF Tail(batch[w]) = <<>> THEN "poll" ELSE "claim"]
    /\ UNCHANGED <<now, events, leads, stats, executions, harness>>

background_task_processor(w) ==
    \/ Poll(w)
    \/ MarkProcessing(w)
    \/ RunHandler(w)
    \/ Finish(w)

(* ------------------------------ requests ------------------------------- *)
\* POST /api/v1/leads
create_lead(landing_id, campaign_id) ==
    /\ Len(leads) < MaxLeads
    /\ leads' = LeadService_create_lead(leads, landing_id, campaign_id)
    /\ stats' = IF campaign_id # NoneStr
                THEN increment_lead_count(stats, now, campaign_id) ELSE stats
    /\ events' = save_event(events, now, Len(leads) + 1, LEAD_CREATED,
                            [campaign_id |-> campaign_id, amount |-> NoneInt])
    /\ IF get_crm_config(landing_id, campaign_id) # NoneStr
       THEN /\ tasks' = create_task(tasks, now, SEND_TO_CRM,
                            [lead_id |-> Len(leads) + 1,
                             crm_id |-> get_crm_config(landing_id, campaign_id),
                             payment_amount |-> 0], 0)
            /\ executions' = Append(executions, 0)
            /\ transitions' = Append(transitions, 0)
       ELSE UNCHANGED <<tasks, executions, transitions>>
    /\ ret' = [op |-> "create_lead",
               arg |-> [landing_id |-> landing_id, campaign_id |-> campaign_id],
               result |-> <<Len(leads) + 1>>, raised |-> FALSE]
    /\ UNCHANGED <<now, loops, calls, flight>>

PaymentData ==
    {<<>>} \cup {<<[amount |-> a, payment_date |-> d]>> : a \in Amounts, d \in {NoneInt, 0}}

PaymentEvents == {i \in 1..Len(events) : events[i].event_type = PAYMENT_REGISTERED}

crm_webhook_task_needs_payment(lead_id, payment_data) ==
    /\ Cardinality(PaymentEvents) < MaxPayments
    /\ IF get_lead(leads, lead_id) = <<>>
       THEN UNCHANGED <<db, executions, transitions>>
       ELSE LET campaign_id == leads[lead_id].campaign_id
                amount == IF payment_data # <<>> THEN payment_data[1].amount ELSE 0
            IN /\ leads' = update_lead_status(leads, now, lead_id, "paid", NoneStr, payment_data)
               /\ stats' = IF campaign_id # NoneStr /\ payment_data # <<>>
                           THEN increment_payment_count(stats, now, campaign_id, amount)
                           ELSE stats
               /\ events' = save_event(events, now, lead_id, PAYMENT_REGISTERED,
                                       [campaign_id |-> NoneStr,
                                        amount |-> IF payment_data # <<>>
                                                   THEN amount ELSE NoneInt])
               /\ IF campaign_id # NoneStr /\ payment_data # <<>>
                  THEN /\ tasks' = create_task(tasks, now, SEND_TO_YANDEX_DIRECT,
                                       [lead_id |-> lead_id, crm_id |-> NoneStr,
                                        payment_amount |-> amount], 0)
                       /\ executions' = Append(executions, 0)
                       /\ transitions' = Append(transitions, 0)
                  ELSE UNCHANGED <<tasks, executions, transitions>>
    /\ ret' = [op |-> "crm_webhook",
               arg |-> [lead_id |-> lead_id, payment_data |-> payment_data],
               result |-> <<>>, raised |-> get_lead(leads, lead_id) = <<>>]
    /\ UNCHANGED <<now, loops, calls, flight>>

\* POST /api/v1/webhooks/crm/{crm_id} with event_type payment_received, for a
\* crm_id the configuration knows; an unknown lead_id ends the request with
\* nothing written
crm_webhook(lead_id, payment_data) ==
    /\ Cardinality(PaymentEvents) < MaxPayments
    /\ IF get_lead(leads, lead_id) = <<>>
       THEN UNCHANGED <<db, executions, transitions>>
       ELSE LET campaign_id == leads[lead_id].campaign_id
                amount == IF payment_data # <<>> THEN payment_data[1].amount ELSE 0
            IN /\ leads' = update_lead_status(leads, now, lead_id, "paid", NoneStr, payment_data)
               /\ stats' = IF campaign_id # NoneStr /\ payment_data # <<>>
                           THEN increment_payment_count(stats, now, campaign_id, amount)
                           ELSE stats
               /\ events' = save_event(events, now, lead_id, PAYMENT_REGISTERED,
                                       [campaign_id |-> NoneStr,
                                        amount |-> IF payment_data # <<>>
                                                   THEN amount ELSE NoneInt])
               /\ IF campaign_id # NoneStr
                  THEN /\ tasks' = create_task(tasks, now, SEND_TO_YANDEX_DIRECT,
                                       [lead_id |-> lead_id, crm_id |-> NoneStr,
                                        payment_amount |-> amount], 0)
                       /\ executions' = Append(executions, 0)
                       /\ transitions' = Append(transitions, 0)
                  ELSE UNCHANGED <<tasks, executions, transitions>>
    /\ ret' = [op |-> "crm_webhook",
               arg |-> [lead_id |-> lead_id, payment_data |-> payment_data],
               result |-> <<>>, raised |-> get_lead(leads, lead_id) = <<>>]
    /\ UNCHANGED <<now, loops, calls, flight>>

Requests ==
    \/ \E l \in Landings, c \in Campaigns \cup {NoneStr} : create_lead(l, c)
    \/ \E id \in 1..(Len(leads) + 1), p \in PaymentData : crm_webhook(id, p)

(* --------------------------- specifications ---------------------------- *)
\* the service as it is started: one worker loop
Next ==
    \/ Tick
    \/ Requests
    \/ background_task_processor("w1")

Spec == Init /\ [][Next]_vars

\* the loop is `while True` with a sleep between polls: it always takes its
\* next step
SpecLive == Init /\ [][Next]_vars /\ WF_vars(background_task_processor("w1"))

\* the same service run as several processes on one database, each with its
\* own worker loop, fed by lead creations
NextWorkers ==
    \/ Tick
    \/ \E l \in Landings, c \in Campaigns \cup {NoneStr} : create_lead(l, c)
    \/ \E w \in Workers : background_task_processor(w)

SpecWorkers == Init /\ [][NextWorkers]_vars


(* ------------------ the services called on their own ------------------- *)
\* Each of the three specifications below calls the operations of one
\* service directly, one call at a time, with every argument of a small
\* set; ret holds the last call and its result, and is cleared when the
\* clock moves.
HarnessTick ==
    /\ now < MaxTime
    /\ now' = now + 1
    /\ ret' = NoRet
    /\ UNCHANGED <<db, loops, executions, transitions, calls, flight>>

\* TaskQueue.create_task
Enqueue(delay) ==
    /\ Len(tasks) < MaxQueue
    /\ tasks' = create_task(tasks, now, SEND_TO_CRM,
                            [lead_id |-> 1, crm_id |-> "crm1", payment_amount |-> 0], delay)
    /\ executions' = Append(executions, 0)
    /\ transitions' = Append(transitions, 0)
    /\ ret' = [op |-> "create_task", arg |-> delay, result |-> <<Len(tasks) + 1>>,
               raised |-> FALSE]
    /\ UNCHANGED <<now, events, leads, stats, loops, calls, flight>>

\* TaskQueue.get_pending_tasks
ClaimReady(limit) ==
    /\ \E r \in get_pending_tasks(tasks, now, limit) :
          ret' = [op |-> "get_pending_tasks", arg |-> limit, result |-> r, raised |-> FALSE]
    /\ UNCHANGED <<now, db, loops, executions, transitions, calls, flight>>

\* TaskQueue.update_task_status in a session of its own
Transition(id, status) ==
    /\ IF get_task_by_id(tasks, id) = <<>>
       THEN /\ ret' = [op |-> "update_task_status", arg |-> id, result |-> <<>>,
                       raised |-> TRUE]
            /\ UNCHANGED <<tasks, transitions>>
       ELSE /\ transitions[id] < MaxTransitions
            /\ tasks' = update_task_status(tasks, now, get_task_by_id(tasks, id)[1], status,
                                           IF status = FAILED THEN "error" ELSE NoneStr,
                                           IF status = COMPLETED THEN "success" ELSE NoneStr)
            /\ transitions' = [transitions EXCEPT ![id] = @ + 1]
            /\ ret' = NoRet
    /\ UNCHANGED <<now, events, leads, stats, loops, executions, calls, flight>>

NextQueue ==
    \/ HarnessTick
    \/ \E delay \in 0..MaxDelay : Enqueue(delay)
    \/ \E limit \in 1..MaxLimit : ClaimReady(limit)
    \/ \E id \in 1..(Len(tasks) + 1), status \in TaskStatus : Transition(id, status)

SpecQueue == Init /\ [][NextQueue]_vars

\* EventStore.save_event
AppendEvent(aggregate_id, event_type) ==
    /\ Len(events) < MaxLog
    /\ events' = save_event(events, now, aggregate_id, event_type, NoPayload)
    /\ ret' = [op |-> "save_event", arg |-> aggregate_id, result |-> <<Len(events) + 1>>,
               raised |-> FALSE]
    /\ UNCHANGED <<now, tasks, leads, stats, loops, executions, transitions, calls, flight>>

\* EventStore.get_events_by_aggregate
ListByAggregate(aggregate_id) ==
    /\ \E r \in get_events_by_aggregate(events, aggregate_id) :
          ret' = [op |-> "get_events_by_aggregate", arg |-> aggregate_id, result |-> r,
                  raised |-> FALSE]
    /\ UNCHANGED <<now, db, loops, executions, transitions, calls, flight>>

NextStore ==
    \/ HarnessTick
    \/ \E a \in Aggregates, ty \in {LEAD_CREATED, PAYMENT_REGISTERED} : AppendEvent(a, ty)
    \/ \E a \in Aggregates : ListByAggregate(a)

SpecStore == Init /\ [][NextStore]_vars

\* CampaignService.increment_lead_count
IncrementLeadCount(campaign_id) ==
    /\ calls[campaign_id].leads + calls[campaign_id].payments < MaxCalls
    /\ stats' = increment_lead_count(stats, now, campaign_id)
    /\ calls' = [calls EXCEPT ![campaign_id].leads = @ + 1]
    /\ ret' = [op |-> "increment_lead_count", arg |-> 0, result |-> <<>>, raised |-> FALSE]
    /\ UNCHANGED <<now, events, tasks, leads, loops, executions, transitions, flight>>

\* CampaignService.increment_payment_count
IncrementPaymentCount(campaign_id, amount) ==
    /\ calls[campaign_id].leads + calls[campaign_id].payments < MaxCalls
    /\ stats' = increment_payment_count(stats, now, campaign_id, amount)
    /\ calls' = [calls EXCEPT ![campaign_id].payments = @ + 1,
                              ![campaign_id].revenue = @ + amount]
    /\ ret' = [op |-> "increment_payment_count", arg |-> amount, result |-> <<>>,
               raised |-> FALSE]
    /\ UNCHANGED <<now, events, tasks, leads, loops, executions, transitions, flight>>

NextStats ==
    \/ HarnessTick
    \/ \E c \in Campaigns : IncrementLeadCount(c)
    \/ \E c \in Campaigns, a \in Amounts : IncrementPaymentCount(c, a)

SpecStats == Init /\ [][NextStats]_vars

\* LeadService.create_lead
CreateLeadSnapshot(landing_id, campaign_id) ==
    /\ Len(leads) < MaxLeads
    /\ leads' = LeadService_create_lead(leads, landing_id, campaign_id)
    /\ ret' = [op |-> "create_lead", arg |-> 0, result |-> <<Len(leads) + 1>>,
               raised |-> FALSE]
    /\ UNCHANGED <<now, events, tasks, stats, loops, executions, transitions, calls, flight>>

LeadStatuses == {"new", "sent_to_crm", "paid"}

\* LeadService.update_lead_status; raised records that the call returned None
UpdateLeadStatus(lead_id, status, crm_id, payment_data) ==
    /\ leads' = update_lead_status(leads, now, lead_id, status, crm_id, payment_data)
    /\ ret' = [op |-> "update_lead_status",
               arg |-> [lead_id |-> lead_id, status |-> status, crm_id |-> crm_id,
                        payment_data |-> payment_data],
               result |-> <<>>,
               raised |-> get_lead(leads, lead_id) = <<>>]
    /\ UNCHANGED <<now, events, tasks, stats, loops, executions, transitions, calls, flight>>

NextLeads ==
    \/ HarnessTick
    \/ \E l \in Landings, c \in Campaigns \cup {NoneStr} : CreateLeadSnapshot(l, c)
    \/ \E lead_id \in 1..(Len(leads) + 1), status \in LeadStatuses,
          crm_id \in {NoneStr, "crm1"}, payment_data \in PaymentData :
          UpdateLeadStatus(lead_id, status, crm_id, payment_data)

SpecLeads == Init /\ [][NextLeads]_vars


\* TaskQueue.create_task called with a payload of the caller's choice: the
\* queue does not look the lead up
Submit(task_type, lead_id) ==
    /\ Len(tasks) < MaxQueue
    /\ tasks' = create_task(tasks, now, task_type,
                            [lead_id |-> lead_id,
                             crm_id |-> IF task_type = SEND_TO_CRM THEN "crm1" ELSE NoneStr,
                             payment_amount |-> 0], 0)
    /\ executions' = Append(executions, 0)
    /\ transitions' = Append(transitions, 0)
    /\ UNCHANGED <<now, events, leads, stats, loops, harness>>

\* the worker loop on tasks whose lead may not exist, or has no campaign
NextOrphans ==
    \/ Tick
    \/ \E l \in Landings, c \in Campaigns \cup {NoneStr} : create_lead(l, c)
    \/ \E ty \in {SEND_TO_CRM, SEND_TO_YANDEX_DIRECT}, id \in 1..(MaxLeads + 1) :
          Submit(ty, id)
    \/ background_task_processor("w1")

SpecOrphans == Init /\ [][NextOrphans]_vars


(* ------------- CampaignService calls, read and write apart ------------- *)
\* select(CampaignStat).where(campaign_id == ...).scalar_one_or_none(): the
\* row as the session loaded it, or the empty sequence for None
read_stat(st, campaign_id) ==
    IF StatRows(st, campaign_id) = {} THEN <<>>
    ELSE <<st[CHOOSE k \in StatRows(st, campaign_id) : TRUE]>>

\* mutant: the UPDATE adds to the stored counter (total_leads = total_leads + 1)
write_lead_count_in_place(st, t, campaign_id, stat) ==
    IF stat = <<>>
    THEN IF StatRows(st, campaign_id) # {}
         THEN [raised |-> TRUE, stats |-> st]
         ELSE [raised |-> FALSE,
               stats  |-> Append(st, [campaign_id     |-> campaign_id,
                                      total_leads     |-> 1,
                                      total_payments  |-> 0,
                                      total_revenue   |-> 0,
                                      last_lead_at    |-> t,
                                      last_payment_at |-> NoneInt])]
    ELSE LET i == CHOOSE k \in StatRows(st, campaign_id) : TRUE
         IN [raised |-> FALSE,
             stats  |-> [st EXCEPT ![i].total_leads = @ + 1, ![i].last_lead_at = t]]

\* the rest of increment_lead_count on the object stat the select returned:
\* without one, an INSERT, which the unique index on campaign_id refuses if
\* the row has appeared since; with one, an UPDATE that stores the values
\* computed on the object
write_lead_count(st, t, campaign_id, stat) ==
    IF stat = <<>>
    THEN IF StatRows(st, campaign_id) # {}
         THEN [raised |-> TRUE, stats |-> st]
         ELSE [raised |-> FALSE,
               stats  |-> Append(st, [campaign_id     |-> campaign_id,
                                      total_leads     |-> 1,
                                      total_payments  |-> 0,
                                      total_revenue   |-> 0,
                                      last_lead_at    |-> t,
                                      last_payment_at |-> NoneInt])]
    ELSE LET i == CHOOSE k \in StatRows(st, campaign_id) : TRUE
         IN [raised |-> FALSE,
             stats  |-> [st EXCEPT ![i].total_leads = stat[1].total_leads + 1,
                                   ![i].last_lead_at = t]]

\* the same for increment_payment_count
write_payment_count(st, t, campaign_id, amount, stat) ==
    IF stat = <<>>
    THEN IF StatRows(st, campaign_id) # {}
         THEN [raised |-> TRUE, stats |-> st]
         ELSE [raised |-> FALSE,
               stats  |-> Append(st, [campaign_id     |-> campaign_id,
                                      total_leads     |-> 0,
                                      total_payments  |-> 1,
                                      total_revenue   |-> amount,
                                      last_lead_at    |-> NoneInt,
                                      last_payment_at |-> t])]
    ELSE LET i == CHOOSE k \in StatRows(st, campaign_id) : TRUE
         IN [raised |-> FALSE,
             stats  |-> [st EXCEPT ![i].total_payments = stat[1].total_payments + 1,
                                   ![i].total_revenue = stat[1].total_revenue + amount,
                                   ![i].last_payment_at = t]]

\* a call of increment_lead_count or increment_payment_count in its own
\* session, up to the result of its select
ReadStat(r, op, campaign_id, amount) ==
    /\ flight[r] = Idle
    /\ calls[campaign_id].leads + calls[campaign_id].payments < MaxCalls
    /\ flight' = [flight EXCEPT ![r] =
                    [Idle EXCEPT !.op = op,
                                 !.at = "write",
                                 !.campaign_id = campaign_id,
                                 !.payment_data =
                                     IF op = "increment_payment_count"
                                     THEN <<[amount |-> amount, payment_date |-> NoneInt]>>
                                     ELSE <<>>,
                                 !.seen = read_stat(stats, campaign_id)]]
    /\ calls' = IF op = "increment_lead_count"
                THEN [calls EXCEPT ![campaign_id].leads = @ + 1]
                ELSE [calls EXCEPT ![campaign_id].payments = @ + 1,
                                   ![campaign_id].revenue = @ + amount]
    /\ UNCHANGED <<now, db, loops, executions, transitions, ret>>

\* ... and from there to its commit
WriteStat(r) ==
    /\ flight[r].at = "write"
    /\ LET f == flight[r]
           w == IF f.op = "increment_lead_count"
                THEN write_lead_count(stats, now, f.campaign_id, f.seen)
                ELSE write_payment_count(stats, now, f.campaign_id,
                                         f.payment_data[1].amount, f.seen)
       IN /\ stats' = w.stats
          /\ ret' = [op |-> f.op, arg |-> 0, result |-> <<>>, raised |-> w.raised]
    /\ flight' = [flight EXCEPT ![r] = Idle]
    /\ UNCHANGED <<now, events, tasks, leads, loops, executions, transitions, calls>>

NextStatsRace ==
    \/ HarnessTick
    \/ \E r \in Slots, c \in Campaigns : ReadStat(r, "increment_lead_count", c, 0)
    \/ \E r \in Slots, c \in Campaigns, a \in Amounts :
          ReadStat(r, "increment_payment_count", c, a)
    \/ \E r \in Slots : WriteStat(r)

SpecStatsRace == Init /\ [][NextStatsRace]_vars


(* ------------------ storage errors in the worker loop ------------------ *)
\* mutant: no try/except around the body of the while loop
ErrorLandsAt_no_outer_except(at, how) ==
    IF at \in {"claim", "handler"} \/ (at = "finish" /\ how # "raised")
    THEN "finish"
    ELSE "stopped"

\* where the loop stands after an exception raised at a point of its
\* iteration: inside the try of a task (the PROCESSING write, the handler,
\* the COMPLETED write) the task's except branch takes it and the loop is
\* about to write the task's status; raised by the poll or by the write of
\* the except branch itself, the except of the while body takes it and the
\* loop polls again after its pause
ErrorLandsAt(at, how) ==
    IF at \in {"claim", "handler"} \/ (at = "finish" /\ how # "raised")
    THEN "finish"
    ELSE "poll"

\* the session raises (the database is unreachable, a commit fails) at the
\* point where the loop stands; nothing is written.  After a failed
\* PROCESSING write the loop's Task object may or may not keep the attempt
\* that update_task_status added before its commit.
StorageError(w) ==
    /\ pc[w] \in {"poll", "claim", "handler", "finish"}
    /\ LET to == ErrorLandsAt(pc[w], outcome[w]) IN
          /\ pc' = [pc EXCEPT ![w] = to]
          /\ IF to = "finish"
             THEN /\ outcome' = [outcome EXCEPT ![w] = "raised"]
                  /\ \/ batch' = batch
                     \/ /\ pc[w] = "claim"
                        /\ batch' = [batch EXCEPT ![w][1].attempts = @ + 1]
                  /\ UNCHANGED answer
             ELSE /\ outcome' = [outcome EXCEPT ![w] = "none"]
                  /\ batch' = [batch EXCEPT ![w] = <<>>]
                  /\ answer' = [answer EXCEPT ![w] = 0]
    /\ executions' = IF pc[w] = "handler"
                     THEN [executions EXCEPT ![Head(batch[w]).id] = @ + 1]
                     ELSE executions
    /\ ret' = [op |-> "storage_error", arg |-> 0, result |-> <<>>, raised |-> TRUE]
    /\ UNCHANGED <<now, db, transitions, calls, flight>>

\* the process is killed and started again: the new loop starts with a poll
WorkerCrash(w) ==
    /\ pc[w] # "poll"
    /\ pc' = [pc EXCEPT ![w] = "poll"]
    /\ batch' = [batch EXCEPT ![w] = <<>>]
    /\ outcome' = [outcome EXCEPT ![w] = "none"]
    /\ answer' = [answer EXCEPT ![w] = 0]
    /\ ret' = [op |-> "restart", arg |-> 0, result |-> <<>>, raised |-> TRUE]
    /\ UNCHANGED <<now, db, executions, transitions, calls, flight>>

\* one worker loop with a failing session, fed by lead creations
NextFaults ==
    \/ Tick
    \/ \E l \in Landings, c \in Campaigns \cup {NoneStr} : create_lead(l, c)
    \/ background_task_processor("w1")
    \/ StorageError("w1")
    \/ WorkerCrash("w1")

\* the loop takes its next step whenever it has one
SpecFaults ==
    /\ Init /\ [][NextFaults]_vars
    /\ WF_vars(background_task_processor("w1"))


(* -------------- requests and handlers, commit by commit ---------------- *)
\* Every service call of a request handler commits on its own, so a request
\* is a sequence of steps, one per commit; flight[r].at names the next one.
\* Other requests and the worker loop run between the steps.
Done(r, op, arg, raised) ==
    /\ flight' = [flight EXCEPT ![r] = Idle]
    /\ ret' = [op |-> op, arg |-> arg, result |-> <<>>, raised |-> raised]

\* POST /api/v1/leads, up to the commit of LeadService.create_lead
CreateLeadSnapshotStep(r, landing_id, campaign_id) ==
    /\ flight[r] = Idle
    /\ Len(leads) < MaxLeads
    /\ leads' = LeadService_create_lead(leads, landing_id, campaign_id)
    /\ flight' = [flight EXCEPT ![r] =
                    [Idle EXCEPT !.op = "create_lead",
                                 !.at = IF campaign_id # NoneStr THEN "stat" ELSE "event",
                                 !.lead_id = Len(leads) + 1,
                                 !.landing_id = landing_id,
                                 !.campaign_id = campaign_id]]
    /\ UNCHANGED <<now, events, tasks, stats, loops, executions, transitions, ret, calls>>

\* ... CampaignService.increment_lead_count
CreateLeadStatStep(r) ==
    /\ flight[r].op = "create_lead" /\ flight[r].at = "stat"
    /\ stats' = increment_lead_count(stats, now, flight[r].campaign_id)
    /\ calls' = [calls EXCEPT ![flight[r].campaign_id].leads = @ + 1]
    /\ flight' = [flight EXCEPT ![r].at = "event"]
    /\ UNCHANGED <<now, events, tasks, leads, loops, executions, transitions, ret>>

\* ... EventStore.save_event; the request ends here without a CRM endpoint
CreateLeadEventStep(r) ==
    /\ flight[r].op = "create_lead" /\ flight[r].at = "event"
    /\ events' = save_event(events, now, flight[r].lead_id, LEAD_CREATED,
                            [campaign_id |-> flight[r].campaign_id, amount |-> NoneInt])
    /\ IF get_crm_config(flight[r].landing_id, flight[r].campaign_id) # NoneStr
       THEN /\ flight' = [flight EXCEPT ![r].at = "task"]
            /\ UNCHANGED ret
       ELSE Done(r, "create_lead", flight[r].lead_id, FALSE)
    /\ UNCHANGED <<now, tasks, leads, stats, loops, executions, transitions, calls>>

\* ... TaskQueue.create_task, and the response
CreateLeadTaskStep(r) ==
    /\ flight[r].op = "create_lead" /\ flight[r].at = "task"
    /\ tasks' = create_task(tasks, now, SEND_TO_CRM,
                            [lead_id |-> flight[r].lead_id,
                             crm_id |-> get_crm_config(flight[r].landing_id,
                                                       flight[r].campaign_id),
                             payment_amount |-> 0], 0)
    /\ executions' = Append(executions, 0)
    /\ transitions' = Append(transitions, 0)
    /\ Done(r, "create_lead", flight[r].lead_id, FALSE)
    /\ UNCHANGED <<now, events, leads, stats, loops, calls>>

\* the payments counted so far, over all campaigns
PaymentCalls ==
    LET Sum[S \in SUBSET Campaigns] ==
            IF S = {} THEN 0
            ELSE LET c == CHOOSE x \in S : TRUE IN calls[c].payments + Sum[S \ {c}]
    IN Sum[Campaigns]

\* POST /api/v1/webhooks/crm/{crm_id}, payment_received, up to the commit of
\* update_lead_status; an unknown lead ends the request
WebhookStatusStep(r, lead_id, payment_data) ==
    /\ flight[r] = Idle
    /\ Cardinality(PaymentEvents) < MaxPayments
    /\ PaymentCalls < MaxPayments
    /\ leads' = update_lead_status(leads, now, lead_id, "paid", NoneStr, payment_data)
    /\ IF get_lead(leads, lead_id) = <<>>
       THEN Done(r, "crm_webhook", lead_id, TRUE)
       ELSE /\ flight' = [flight EXCEPT ![r] =
                    [Idle EXCEPT !.op = "crm_webhook",
                                 !.at = IF leads[lead_id].campaign_id # NoneStr
                                           /\ payment_data # <<>>
                                        THEN "stat" ELSE "event",
                                 !.lead_id = lead_id,
                                 !.campaign_id = leads[lead_id].campaign_id,
                                 !.payment_data = payment_data]]
            /\ UNCHANGED ret
    /\ UNCHANGED <<now, events, tasks, stats, loops, executions, transitions, calls>>

\* ... CampaignService.increment_payment_count
WebhookStatStep(r) ==
    /\ flight[r].op = "crm_webhook" /\ flight[r].at = "stat"
    /\ stats' = increment_payment_count(stats, now, flight[r].campaign_id,
                                        flight[r].payment_data[1].amount)
    /\ calls' = [calls EXCEPT ![flight[r].campaign_id].payments = @ + 1,
                              ![flight[r].campaign_id].revenue =
                                    @ + flight[r].payment_data[1].amount]
    /\ flight' = [flight EXCEPT ![r].at = "event"]
    /\ UNCHANGED <<now, events, tasks, leads, loops, executions, transitions, ret>>

\* ... EventStore.save_event; the request ends here for a lead without campaign
WebhookEventStep(r) ==
    /\ flight[r].op = "crm_webhook" /\ flight[r].at = "event"
    /\ events' = save_event(events, now, flight[r].lead_id, PAYMENT_REGISTERED,
                            [campaign_id |-> NoneStr,
                             amount |-> IF flight[r].payment_data # <<>>
                                        THEN flight[r].payment_data[1].amount
                                        ELSE NoneInt])
    /\ IF flight[r].campaign_id # NoneStr
       THEN /\ flight' = [flight EXCEPT ![r].at = "task"]
            /\ UNCHANGED ret
       ELSE Done(r, "crm_webhook", flight[r].lead_id, FALSE)
    /\ UNCHANGED <<now, tasks, leads, stats, loops, executions, transitions, calls>>

\* ... TaskQueue.create_task, and the response
WebhookTaskStep(r) ==
    /\ flight[r].op = "crm_webhook" /\ flight[r].at = "task"
    /\ tasks' = create_task(tasks, now, SEND_TO_YANDEX_DIRECT,
                            [lead_id |-> flight[r].lead_id, crm_id |-> NoneStr,
                             payment_amount |-> IF flight[r].payment_data # <<>>
                                                THEN flight[r].payment_data[1].amount
                                                ELSE 0], 0)
    /\ executions' = Append(executions, 0)
    /\ transitions' = Append(transitions, 0)
    /\ Done(r, "crm_webhook", flight[r].lead_id, FALSE)
    /\ UNCHANGED <<now, events, leads, stats, loops, calls>>

\* the steps that carry on a request already begun
RequestGoesOn(r) ==
    \/ CreateLeadStatStep(r)
    \/ CreateLeadEventStep(r)
    \/ CreateLeadTaskStep(r)
    \/ WebhookStatStep(r)
    \/ WebhookEventStep(r)
    \/ WebhookTaskStep(r)

RequestSteps(r) ==
    \/ \E l \in Landings, c \in Campaigns \cup {NoneStr} : CreateLeadSnapshotStep(r, l, c)
    \/ \E id \in 1..(Len(leads) + 1), p \in PaymentData : WebhookStatusStep(r, id, p)
    \/ RequestGoesOn(r)

\* the handler of the task in hand up to its first commit: process_crm_task
\* with a 2xx answer has committed update_lead_status and still has its
\* event to save; every other execution is over
HandlerFirstCommit(w) ==
    /\ pc[w] = "handler"
    /\ \E code \in StatusCodes :
          LET id == Head(batch[w]).id
              r == RunTask(leads, events, tasks, now, id, code)
              more == tasks[id].task_type = SEND_TO_CRM /\ ~r.raised
          IN /\ leads' = r.leads
             /\ events' = IF more THEN events ELSE r.events
             /\ outcome' = [outcome EXCEPT ![w] = IF more THEN "none"
                                                  ELSE IF r.raised THEN "raised" ELSE "ok"]
             /\ answer' = [answer EXCEPT ![w] = AdapterAnswer(leads, tasks, id, code)]
             /\ executions' = [executions EXCEPT ![id] = @ + 1]
             /\ pc' = [pc EXCEPT ![w] = IF more THEN "handler_event" ELSE "finish"]
    /\ UNCHANGED <<now, tasks, stats, batch, transitions, harness>>

\* ... save_event(LEAD_SENT_TO_CRM), and the handler returns
HandlerEvent(w) ==
    /\ pc[w] = "handler_event"
    /\ events' = save_event(events, now, tasks[Head(batch[w]).id].payload.lead_id,
                            LEAD_SENT_TO_CRM, NoPayload)
    /\ outcome' = [outcome EXCEPT ![w] = "ok"]
    /\ pc' = [pc EXCEPT ![w] = "finish"]
    /\ UNCHANGED <<now, tasks, leads, stats, batch, answer, executions, transitions, harness>>

WorkerSteps(w) ==
    \/ Poll(w)
    \/ MarkProcessing(w)
    \/ HandlerFirstCommit(w)
    \/ HandlerEvent(w)
    \/ Finish(w)

NextSteps ==
    \/ Tick
    \/ RequestSteps("r1")
    \/ WorkerSteps("w1")

SpecSteps == Init /\ [][NextSteps]_vars

\* a request that stops between two commits: the process is killed, or a
\* commit raises and the handler answers 500
Crash(r) ==
    /\ flight[r] # Idle
    /\ flight' = [flight EXCEPT ![r] = Idle]
    /\ ret' = [op |-> flight[r].op, arg |-> flight[r].lead_id,
               result |-> <<>>, raised |-> TRUE]
    /\ UNCHANGED <<now, db, loops, executions, transitions, calls>>

NextCrash ==
    \/ NextSteps
    \/ Crash("r1")

\* a request that is not interrupted goes on to its end, and the worker
\* loop keeps polling
SpecCrash ==
    /\ Init /\ [][NextCrash]_vars
    /\ WF_vars(RequestGoesOn("r1"))
    /\ WF_vars(WorkerSteps("w1"))


(* ------------------------------- claims -------------------------------- *)
\* the tasks a worker loop's poll returned and the loop has not finished yet
Held(w) == {batch[w][k].id : k \in 1..Len(batch[w])}

\* C1 (claim exclusivity): a task that one worker loop's poll returned, and
\* that loop has not finished, is never returned to another loop (so no two
\* loops run the handler of the same task for one pending period).
C1_ClaimExclusivity ==
    \A w1, w2 \in Workers : w1 # w2 => Held(w1) \cap Held(w2) = {}

\* C2 (terminal-state invariant): no step changes the status of a task that
\* is completed or failed, whatever status a transition call asks for.
C2_TerminalStatusStays ==
    [][\A i \in 1..Len(tasks) :
          tasks[i].status \in {COMPLETED, FAILED} => tasks'[i].status = tasks[i].status]_vars

\* C3: under the single worker loop every task has attempts <= max_attempts
\* in every reachable state.
C3_AttemptsWithinMax ==
    \A i \in 1..Len(tasks) : tasks[i].attempts <= tasks[i].max_attempts

\* C4 (bounded retry): a task is never executed more than max_attempts times,
\* and a task that is failed (its handler failed on every execution) was
\* executed exactly max_attempts times, has attempts = max_attempts and has
\* its error_message set.
C4_BoundedRetry ==
    \A i \in 1..Len(tasks) :
        /\ executions[i] <= tasks[i].max_attempts
        /\ tasks[i].status = FAILED =>
              /\ executions[i] = tasks[i].max_attempts
              /\ tasks[i].attempts = tasks[i].max_attempts
              /\ tasks[i].error_message # NoneStr

\* C5: after k successful transition calls on a freshly enqueued task its
\* attempts is k: every call adds exactly 1, whatever the new status.
C5_AttemptsCountTransitions ==
    \A i \in 1..Len(tasks) : tasks[i].attempts = transitions[i]

\* C5 witness: a task that was moved to processing and back to pending
C5_Witness ==
    \E i \in 1..Len(tasks) :
        tasks[i].status = PENDING /\ transitions[i] = 2 /\ tasks[i].started_at # NoneInt

\* C6: claimReady(limit) returns only pending tasks that are due, no task
\* twice, at most limit of them, and all of them when no more than limit are
\* eligible.
C6_ClaimReadyEligible ==
    ret.op = "get_pending_tasks" =>
        LET r == ret.result
            due == {i \in 1..Len(tasks) :
                      tasks[i].status = PENDING /\ tasks[i].scheduled_at <= now}
        IN /\ \A k \in 1..Len(r) : r[k] \in due
           /\ \A k, l \in 1..Len(r) : r[k] = r[l] => k = l
           /\ Len(r) = Min(ret.arg, Cardinality(due))

\* C6 witness: a call with limit 2 that returned the one eligible task while
\* another task was scheduled in the future, and a call cut short by its limit
C6_Witness ==
    /\ ret.op = "get_pending_tasks"
    /\ \/ /\ ret.arg = 2
          /\ Len(ret.result) = 1
          /\ \E j \in 1..Len(tasks) : tasks[j].status = PENDING /\ tasks[j].scheduled_at > now
       \/ /\ ret.arg = 1
          /\ Len(ret.result) = 1
          /\ \E j \in 1..Len(tasks) : tasks[j].status = COMPLETED

\* C7: the result of claimReady is ordered by scheduled_at ascending with
\* ties in enqueue order, and every eligible task left out comes after every
\* returned one in that order.
C7_ClaimReadyOrder ==
    ret.op = "get_pending_tasks" =>
        LET r == ret.result
            Earlier(a, b) ==
                \/ tasks[a].scheduled_at < tasks[b].scheduled_at
                \/ tasks[a].scheduled_at = tasks[b].scheduled_at /\ a < b
        IN /\ \A k, l \in 1..Len(r) : k < l => Earlier(r[k], r[l])
           /\ \A j \in 1..Len(tasks) :
                 (/\ tasks[j].status = PENDING
                  /\ tasks[j].scheduled_at <= now
                  /\ j \notin Range(r)) => \A k \in 1..Len(r) : Earlier(r[k], j)

\* C8 (append-order invariant): listByAggregate returns exactly the events
\* of the aggregate, in the order they were appended (empty when none).
C8_AppendOrder ==
    ret.op = "get_events_by_aggregate" =>
        LET r == ret.result
        IN /\ Range(r) = {i \in 1..Len(events) : events[i].aggregate_id = ret.arg}
           /\ \A k, l \in 1..Len(r) : k < l => r[k] < r[l]

\* C9 (append-only log): every event of a state is there unchanged in the
\* next state, and the event count never decreases.
C9_EventLogAppendOnly ==
    [][/\ Len(events') >= Len(events)
       /\ \A i \in 1..Len(events) : events'[i] = events[i]]_vars

\* C9 witness: a log written by a lead creation, a payment webhook and a task
\* execution
C9_Witness ==
    /\ \E i \in 1..Len(events) : events[i].event_type = LEAD_CREATED
    /\ \E i \in 1..Len(events) : events[i].event_type = PAYMENT_REGISTERED
    /\ \E i \in 1..Len(events) : events[i].event_type = LEAD_SENT_TO_CRM
    /\ \E i \in 1..Len(events) : events[i].event_type = YANDEX_DIRECT_CONVERSION

\* C10 (upsert counters): a campaign never referenced has no row; a
\* referenced one has exactly one row, whose total_leads, total_payments and
\* total_revenue are the number of incrementLeadCount calls, the number of
\* incrementPaymentCount calls and the sum of their amounts.
C10_UpsertCounters ==
    \A c \in Campaigns :
        LET rows == {i \in 1..Len(stats) : stats[i].campaign_id = c}
        IN IF calls[c].leads + calls[c].payments = 0
           THEN rows = {}
           ELSE /\ Cardinality(rows) = 1
                /\ \A i \in rows :
                      /\ stats[i].total_leads = calls[c].leads
                      /\ stats[i].total_payments = calls[c].payments
                      /\ stats[i].total_revenue = calls[c].revenue

\* C10 witness: a row created by a payment (leads 0), then a lead and a
\* second payment, beside the row of another campaign
C10_Witness ==
    /\ Len(stats) = 2
    /\ stats[1].total_leads = 1
    /\ stats[1].total_payments = 2
    /\ stats[1].total_revenue = 150
    /\ stats[1].last_lead_at > stats[1].last_payment_at
    /\ stats[2].total_leads = 0

\* C11 (lead not found): update_lead_status on a lead_id that has no snapshot
\* ends with the not-found outcome (it returns None) and leaves every lead
\* snapshot, campaign rollup, event and task as it was.
C11_UnknownLeadNoEffect ==
    [][(ret'.op = "update_lead_status" /\ now' = now
          /\ ret'.arg.lead_id \notin 1..Len(leads))
        => /\ ret'.raised
           /\ UNCHANGED <<leads, stats, events, tasks>>]_vars

C11_Witness ==
    /\ ret.op = "update_lead_status"
    /\ ret.raised
    /\ ret.arg.lead_id = Len(leads) + 1
    /\ ret.arg.status = "paid"
    /\ Len(leads) >= 1

\* C12 (frame of a status update): update_lead_status on an existing lead
\* sets status to the given value; it sets payment_amount and payment_date
\* exactly when status is "paid" and payment data is given (payment_date is
\* the supplied date, or the current time when none is supplied) and leaves
\* both as they were in every other call; crm_id changes only when a crm_id
\* is given; no other lead changes.
C12_UpdateFrame ==
    [][(ret'.op = "update_lead_status" /\ now' = now
          /\ ret'.arg.lead_id \in 1..Len(leads))
        => LET a == ret'.arg
               old == leads[a.lead_id]
               new == leads'[a.lead_id]
           IN /\ ~ret'.raised
              /\ Len(leads') = Len(leads)
              /\ \A j \in 1..Len(leads) : j # a.lead_id => leads'[j] = leads[j]
              /\ new.status = a.status
              /\ new.campaign_id = old.campaign_id
              /\ new.landing_id = old.landing_id
              /\ IF a.status = "paid" /\ a.payment_data # <<>>
                 THEN /\ new.payment_amount = a.payment_data[1].amount
                      /\ new.payment_date =
                            IF a.payment_data[1].payment_date # NoneInt
                            THEN a.payment_data[1].payment_date ELSE now
                 ELSE /\ new.payment_amount = old.payment_amount
                      /\ new.payment_date = old.payment_date
              /\ new.crm_id = IF a.crm_id # NoneStr THEN a.crm_id ELSE old.crm_id]_vars

C12_Witness ==
    /\ ret.op = "update_lead_status"
    /\ ~ret.raised
    /\ ret.arg.status = "sent_to_crm"
    /\ ret.arg.payment_data # <<>>
    /\ ret.arg.crm_id = NoneStr
    /\ leads[ret.arg.lead_id].payment_amount = 50
    /\ leads[ret.arg.lead_id].payment_date = 1
    /\ leads[ret.arg.lead_id].crm_id = "crm1"
    /\ now = 1

\* C13 (enqueue): create_task(task_type, payload, delay) adds exactly one
\* task, pending, with attempts 0 and scheduled_at = now + delay, and leaves
\* every existing task as it was; no call of get_pending_tasks returns a task
\* before the clock has reached its scheduled_at.
C13_EnqueueAddsOneDelayedTask ==
    [][/\ ret'.op = "create_task" =>
             LET new == tasks'[Len(tasks')]
             IN /\ Len(tasks') = Len(tasks) + 1
                /\ SubSeq(tasks', 1, Len(tasks)) = tasks
                /\ ret'.result = <<Len(tasks')>>
                /\ new.status = PENDING
                /\ new.attempts = 0
                /\ new.scheduled_at = now + ret'.arg
                /\ new.started_at = NoneInt /\ new.completed_at = NoneInt
       /\ ret'.op = "get_pending_tasks" =>
             \A k \in 1..Len(ret'.result) :
                 tasks'[ret'.result[k]].scheduled_at <= now']_vars

\* C13 witness: a task enqueued with a delay next to an older task that has
\* already been worked on, and not yet due
C13_Witness ==
    /\ ret.op = "create_task"
    /\ ret.arg > 0
    /\ Len(tasks) = 2
    /\ tasks[1].status = COMPLETED
    /\ tasks[2].scheduled_at > now

StatusChanges ==
    {<<PENDING, PROCESSING>>, <<PROCESSING, COMPLETED>>,
     <<PROCESSING, FAILED>>, <<PROCESSING, PENDING>>}

\* C14 (task state machine): with one worker loop, every change of a task's
\* status is pending -> processing, processing -> completed, processing ->
\* failed or processing -> pending; in particular no task goes from pending
\* to completed or failed, or leaves completed or failed.
C14_TaskStateMachine ==
    [][/\ Len(tasks') >= Len(tasks)
       /\ \A i \in 1..Len(tasks) :
             tasks'[i].status # tasks[i].status
                => <<tasks[i].status, tasks'[i].status>> \in StatusChanges]_vars

\* C14 witness: the loop has taken one task through a retry to failed and
\* another to completed, and the clock has moved
C14_Witness ==
    /\ \E i \in 1..Len(tasks) : tasks[i].status = FAILED /\ executions[i] = 2
    /\ \E j \in 1..Len(tasks) : tasks[j].status = COMPLETED
    /\ now = MaxTime

\* the single worker loop of Spec, and the task it has in hand
TheLoop == "w1"
InHand == Head(batch[TheLoop]).id
HandlerStep(task_type) ==
    /\ pc[TheLoop] = "handler" /\ pc'[TheLoop] = "finish"
    /\ tasks[InHand].task_type = task_type
FinishStep(task_type) ==
    /\ pc[TheLoop] = "finish" /\ pc'[TheLoop] # "finish"
    /\ tasks[InHand].task_type = task_type

\* C15 (send-to-CRM handler): for an existing lead, an adapter answer in
\* [200,300) makes the lead "sent_to_crm" with the CRM's id recorded, appends
\* one LEAD_SENT_TO_CRM event for the lead and ends the execution normally
\* (the task becomes completed); any other answer is a handler failure that
\* leaves the lead snapshots and the event log as they were, after which the
\* task is pending again or failed with its error recorded.
C15_CrmHandlerOutcome ==
    [][/\ HandlerStep(SEND_TO_CRM) =>
             LET p == tasks[InHand].payload
             IN IF Is2xx(answer'[TheLoop])
                THEN /\ outcome'[TheLoop] = "ok"
                     /\ Len(leads') = Len(leads)
                     /\ leads'[p.lead_id].status = "sent_to_crm"
                     /\ leads'[p.lead_id].crm_id = p.crm_id
                     /\ Len(events') = Len(events) + 1
                     /\ SubSeq(events', 1, Len(events)) = events
                     /\ events'[Len(events')].event_type = LEAD_SENT_TO_CRM
                     /\ events'[Len(events')].aggregate_id = p.lead_id
                ELSE /\ outcome'[TheLoop] = "raised"
                     /\ leads' = leads
                     /\ events' = events
       /\ FinishStep(SEND_TO_CRM) =>
             IF Is2xx(answer[TheLoop])
             THEN tasks'[InHand].status = COMPLETED
             ELSE \/ tasks'[InHand].status = PENDING
                  \/ /\ tasks'[InHand].status = FAILED
                     /\ tasks'[InHand].error_message # NoneStr]_vars

\* C15 witness: a send-to-CRM task whose first execution failed and whose
\* second one got a 2xx answer, with the lead marked and the event in the log
C15_Witness ==
    /\ pc[TheLoop] = "finish"
    /\ tasks[InHand].task_type = SEND_TO_CRM
    /\ executions[InHand] = 2
    /\ Is2xx(answer[TheLoop])
    /\ leads[tasks[InHand].payload.lead_id].status = "sent_to_crm"
    /\ leads[tasks[InHand].payload.lead_id].crm_id # NoneStr
    /\ \E i \in 1..Len(events) : events[i].event_type = LEAD_SENT_TO_CRM

\* the campaign of the lead that the task in hand is about
CampaignInHand == leads[tasks[InHand].payload.lead_id].campaign_id

\* C16 (no swallowed failure): a send-conversion task whose send_conversion
\* call for a wired campaign got an answer outside [200,300) is not marked
\* completed by the status write that follows: it goes back to pending or
\* becomes failed with the error recorded.
C16_ConversionFailureNotCompleted ==
    [][(/\ FinishStep(SEND_TO_YANDEX_DIRECT)
        /\ CampaignInHand \in yandex_campaigns
        /\ answer[TheLoop] # 0
        /\ ~Is2xx(answer[TheLoop]))
        => \/ tasks'[InHand].status = PENDING
           \/ /\ tasks'[InHand].status = FAILED
              /\ tasks'[InHand].error_message # NoneStr]_vars

\* C17 (missing ad-platform wiring): the handler of a send-conversion task
\* for a lead whose campaign has no ad-platform wiring ends normally without
\* appending an event, and the task is completed by its first execution; in
\* every execution of a send-conversion task an event is appended exactly
\* when send_conversion was called and answered in [200,300), and it is one
\* YANDEX_DIRECT_CONVERSION event of that lead.
C17_MissingWiringNoOp ==
    [][/\ HandlerStep(SEND_TO_YANDEX_DIRECT) =>
             /\ leads' = leads
             /\ IF Is2xx(answer'[TheLoop])
                THEN /\ CampaignInHand \in yandex_campaigns
                     /\ Len(events') = Len(events) + 1
                     /\ SubSeq(events', 1, Len(events)) = events
                     /\ events'[Len(events')].event_type = YANDEX_DIRECT_CONVERSION
                     /\ events'[Len(events')].aggregate_id = tasks[InHand].payload.lead_id
                ELSE events' = events
             /\ (CampaignInHand # NoneStr /\ CampaignInHand \notin yandex_campaigns)
                   => /\ outcome'[TheLoop] = "ok"
                      /\ events' = events
       /\ (/\ FinishStep(SEND_TO_YANDEX_DIRECT)
           /\ CampaignInHand # NoneStr
           /\ CampaignInHand \notin yandex_campaigns)
             => /\ tasks'[InHand].status = COMPLETED
                /\ executions[InHand] = 1]_vars

\* C17 witness: a completed send-conversion task of a lead whose campaign has
\* no wiring, executed once, with no conversion event in the log
C17_Witness ==
    \E i \in 1..Len(tasks) :
        /\ tasks[i].task_type = SEND_TO_YANDEX_DIRECT
        /\ tasks[i].status = COMPLETED
        /\ executions[i] = 1
        /\ leads[tasks[i].payload.lead_id].campaign_id \notin yandex_campaigns
        /\ \A k \in 1..Len(events) : events[k].event_type # YANDEX_DIRECT_CONVERSION

\* a step of Spec that handles a payment_received webhook: the request is
\* recorded in ret, and neither the worker loop nor the clock moves
WebhookStep ==
    /\ ret'.op = "crm_webhook"
    /\ UNCHANGED <<now, pc, batch, outcome, answer>>
    /\ ret' # ret \/ leads' # leads \/ events' # events

PaymentsOf(st, c) ==
    IF StatRows(st, c) = {} THEN 0
    ELSE st[CHOOSE k \in StatRows(st, c) : TRUE].total_payments

\* C18 as stated (four effects): every payment_received webhook for an
\* existing lead sets the lead's status to "paid", increments the payment
\* counter of the lead's campaign, appends one PAYMENT_REGISTERED event and
\* enqueues one send-conversion task, also when the lead has no campaign_id
\* or the webhook carries no payment data.
C18_PaymentFourEffects ==
    [][(WebhookStep /\ ret'.arg.lead_id \in 1..Len(leads))
        => LET lead_id == ret'.arg.lead_id
               c == leads[lead_id].campaign_id
           IN /\ leads'[lead_id].status = "paid"
              /\ c # NoneStr
              /\ PaymentsOf(stats', c) = PaymentsOf(stats, c) + 1
              /\ Len(events') = Len(events) + 1
              /\ events'[Len(events')].event_type = PAYMENT_REGISTERED
              /\ Len(tasks') = Len(tasks) + 1
              /\ tasks'[Len(tasks')].task_type = SEND_TO_YANDEX_DIRECT]_vars

\* C18 (amended): every payment_received webhook for an existing lead sets
\* the lead's status to "paid" and appends one PAYMENT_REGISTERED event of
\* that lead; it increments the payment counter of the lead's campaign
\* exactly when the lead has a campaign_id and the webhook carries payment
\* data (the rollups are unchanged otherwise), and it enqueues one pending
\* send-conversion task for the lead exactly when the lead has a campaign_id
\* (the tasks are unchanged otherwise).
C18_PaymentEffects ==
    [][(WebhookStep /\ ret'.arg.lead_id \in 1..Len(leads))
        => LET lead_id == ret'.arg.lead_id
               c == leads[lead_id].campaign_id
           IN /\ ~ret'.raised
              /\ leads'[lead_id].status = "paid"
              /\ Len(events') = Len(events) + 1
              /\ SubSeq(events', 1, Len(events)) = events
              /\ events'[Len(events')].event_type = PAYMENT_REGISTERED
              /\ events'[Len(events')].aggregate_id = lead_id
              /\ IF c # NoneStr /\ ret'.arg.payment_data # <<>>
                 THEN /\ PaymentsOf(stats', c) = PaymentsOf(stats, c) + 1
                      /\ \A d \in Campaigns \ {c} : PaymentsOf(stats', d) = PaymentsOf(stats, d)
                 ELSE stats' = stats
              /\ IF c # NoneStr
                 THEN /\ Len(tasks') = Len(tasks) + 1
                      /\ SubSeq(tasks', 1, Len(tasks)) = tasks
                      /\ tasks'[Len(tasks')].task_type = SEND_TO_YANDEX_DIRECT
                      /\ tasks'[Len(tasks')].status = PENDING
                      /\ tasks'[Len(tasks')].payload.lead_id = lead_id
                 ELSE tasks' = tasks]_vars

\* C18 witness: a webhook without payment data for a lead that has a
\* campaign: the lead is paid, the event is in the log, the task is enqueued
\* and the campaign's payment counter is still 0
C18_Witness ==
    /\ ret.op = "crm_webhook"
    /\ ~ret.raised
    /\ ret.arg.payment_data = <<>>
    /\ leads[ret.arg.lead_id].status = "paid"
    /\ leads[ret.arg.lead_id].campaign_id # NoneStr
    /\ PaymentsOf(stats, leads[ret.arg.lead_id].campaign_id) = 0
    /\ PaymentEvents # {}
    /\ \E i \in 1..Len(tasks) : tasks[i].task_type = SEND_TO_YANDEX_DIRECT

LeadsOf(st, c) ==
    IF StatRows(st, c) = {} THEN 0
    ELSE st[CHOOSE k \in StatRows(st, c) : TRUE].total_leads

\* what the event log says: the LEAD_CREATED events of campaign c, and the
\* PAYMENT_REGISTERED events of the leads created for c
CreatedFor(c) ==
    {i \in 1..Len(events) :
        events[i].event_type = LEAD_CREATED /\ events[i].payload.campaign_id = c}
PaidFor(c) ==
    {i \in 1..Len(events) :
        /\ events[i].event_type = PAYMENT_REGISTERED
        /\ \E j \in CreatedFor(c) : events[j].aggregate_id = events[i].aggregate_id}

\* C20 as stated (rollup equals the log): with requests handled one at a
\* time, for every campaign c total_leads is the number of LEAD_CREATED
\* events with payload campaign_id c and total_payments is the number of
\* PAYMENT_REGISTERED events of leads of c.
C20_RollupEqualsLog ==
    \A c \in Campaigns :
        /\ Cardinality(StatRows(stats, c)) <= 1
        /\ LeadsOf(stats, c) = Cardinality(CreatedFor(c))
        /\ PaymentsOf(stats, c) = Cardinality(PaidFor(c))

\* C20 (amended): with requests handled one at a time, for every campaign c
\* total_leads is the number of LEAD_CREATED events with payload campaign_id
\* c and total_payments is the number of PAYMENT_REGISTERED events of leads
\* of c whose payload carries payment data; so both counters can be rebuilt
\* from the event log alone.
C20_RollupFromLog ==
    \A c \in Campaigns :
        /\ Cardinality(StatRows(stats, c)) <= 1
        /\ LeadsOf(stats, c) = Cardinality(CreatedFor(c))
        /\ PaymentsOf(stats, c) =
              Cardinality({i \in PaidFor(c) : events[i].payload.amount # NoneInt})

\* C20 witness: a campaign with one lead and one counted payment, both in
\* the log, after the worker loop has appended events of its own
C20_Witness ==
    \E c \in Campaigns :
        /\ LeadsOf(stats, c) = 1
        /\ PaymentsOf(stats, c) = 1
        /\ Cardinality(PaidFor(c)) = 1
        /\ \E i \in 1..Len(events) : events[i].event_type = LEAD_SENT_TO_CRM

\* the most tasks the requests of Spec can enqueue
MaxTasks == MaxLeads + MaxPayments

LogAgrees ==
    /\ \A i \in 1..Len(leads) :
          \E k \in 1..Len(events) :
              events[k].event_type = LEAD_CREATED /\ events[k].aggregate_id = i
    /\ \A c \in Campaigns : LeadsOf(stats, c) = Cardinality(CreatedFor(c))

\* a lead-creation request was interrupted after its snapshot write or its
\* counter increment and before its event append
InterruptedBeforeEvent ==
    /\ ret.op = "create_lead"
    /\ ret.raised
    /\ ret.arg \in 1..Len(leads)
    /\ \A k \in 1..Len(events) :
          ~(events[k].event_type = LEAD_CREATED /\ events[k].aggregate_id = ret.arg)

\* C21 (recoverability from partial writes): after a lead-creation request
\* is interrupted between its snapshot write (or its counter increment) and
\* its LEAD_CREATED append, the system eventually is in a state where every
\* lead snapshot has a LEAD_CREATED event and the counters match the events.
C21_PartialWriteRecovers == InterruptedBeforeEvent ~> LogAgrees

\* the lookup at the head of the handler of task i fails: no lead snapshot,
\* or for a send-conversion task a lead without campaign_id
LookupFails(i) ==
    \/ get_lead(leads, tasks[i].payload.lead_id) = <<>>
    \/ /\ tasks[i].task_type = SEND_TO_YANDEX_DIRECT
       /\ leads[tasks[i].payload.lead_id].campaign_id = NoneStr

\* C22 (lookup failure is retried): an execution that ends because the
\* handler's lookup failed is a handler failure like any other: it writes
\* nothing but the task's status, the first such execution returns the task
\* to pending with attempts increased, and the task becomes failed only with
\* its attempts run out (attempts >= max_attempts).
C22_LookupFailureRetried ==
    [][/\ (pc[TheLoop] = "handler" /\ pc'[TheLoop] = "finish" /\ LookupFails(InHand))
          => /\ outcome'[TheLoop] = "raised"
             /\ answer'[TheLoop] = 0
             /\ UNCHANGED <<leads, events>>
       /\ (pc[TheLoop] = "finish" /\ pc'[TheLoop] # "finish" /\ answer[TheLoop] = 0)
          => /\ tasks'[InHand].status \in {PENDING, FAILED}
             /\ tasks'[InHand].attempts > tasks[InHand].attempts
             /\ executions[InHand] = 1 => tasks'[InHand].status = PENDING
             /\ tasks'[InHand].status = FAILED
                   => tasks'[InHand].attempts >= tasks'[InHand].max_attempts]_vars

\* C22 witness: a send-conversion task of a lead without campaign_id that
\* failed at its second execution, next to a send-to-CRM task of a lead that
\* does not exist, back in pending after its first execution
C22_Witness ==
    \E i, j \in 1..Len(tasks) :
        /\ tasks[i].task_type = SEND_TO_YANDEX_DIRECT
        /\ get_lead(leads, tasks[i].payload.lead_id) # <<>>
        /\ LookupFails(i)
        /\ tasks[i].status = FAILED
        /\ executions[i] = 2
        /\ tasks[j].task_type = SEND_TO_CRM
        /\ get_lead(leads, tasks[j].payload.lead_id) = <<>>
        /\ tasks[j].status = PENDING
        /\ executions[j] = 1

\* C23 (the loop never terminates): whatever point of an iteration a storage
\* error is raised at, the loop is still at one of the points of its body,
\* and after a storage error or a restart it comes to poll the queue again.
C23_LoopSurvivesStorageErrors ==
    /\ [](pc[TheLoop] \in {"poll", "claim", "handler", "finish"})
    /\ (ret.op = "storage_error") ~> (pc[TheLoop] = "poll" /\ batch[TheLoop] = <<>>)

\* C23 witness: the write of the except branch has raised too, the loop is
\* back at its poll, and the task it had in hand is left in processing
C23_Witness ==
    /\ ret.op = "storage_error"
    /\ pc[TheLoop] = "poll"
    /\ \E i \in 1..Len(tasks) : tasks[i].status = PROCESSING /\ executions[i] = 1

\* C27 (stuck in processing): a task that is in processing while the worker
\* loop no longer holds it (its iteration was cut by a restart, or by a
\* storage error on the status writes after the handler) is in processing
\* in every later state: no poll returns it and no step changes its status.
C27_ProcessingStaysStuck ==
    [][\A i \in 1..Len(tasks) :
          (tasks[i].status = PROCESSING /\ i \notin Held(TheLoop))
             => /\ tasks'[i].status = PROCESSING
                /\ i \notin Held(TheLoop)']_vars

\* C27 witness: the loop was started again while a task was in processing
\* and is at its poll, the clock has moved, and the task is still there
C27_Witness ==
    \E i \in 1..Len(tasks) :
        /\ tasks[i].status = PROCESSING
        /\ i \notin Held(TheLoop)
        /\ pc[TheLoop] = "poll"
        /\ ret.op = "restart"
        /\ executions[i] = 1
        /\ now > tasks[i].started_at

\* C24 (lost update of the rollup): the write step of an increment call
\* stores the counter the call's own read step saw plus 1, whatever other
\* calls have written since; a call whose read saw no row inserts one, or
\* fails on the unique campaign_id if another call has inserted it since.
\* So two calls for one campaign that both read before either writes leave
\* the counter grown by 1, not 2, and it never exceeds the calls made.
C24_WriteStoresWhatWasRead ==
    [][\A r \in Slots :
          (flight[r].at = "write" /\ flight'[r] = Idle) =>
             LET f == flight[r]
                 c == f.campaign_id
                 lead == f.op = "increment_lead_count"
                 Count(st) == IF lead THEN LeadsOf(st, c) ELSE PaymentsOf(st, c)
             IN /\ IF f.seen = <<>>
                   THEN IF StatRows(stats, c) # {}
                        THEN ret'.raised /\ stats' = stats
                        ELSE ~ret'.raised /\ Count(stats') = 1
                   ELSE /\ ~ret'.raised
                        /\ Count(stats') =
                             1 + IF lead THEN f.seen[1].total_leads
                                 ELSE f.seen[1].total_payments
                /\ Cardinality(StatRows(stats', c)) <= 1
                /\ LeadsOf(stats', c) <= calls[c].leads
                /\ PaymentsOf(stats', c) <= calls[c].payments]_vars

\* C24 witness: two increment_lead_count calls for a campaign that has its
\* row have both finished without an error, and total_leads is 1
C24_Witness ==
    /\ \A r \in Slots : flight[r] = Idle
    /\ ret.op = "increment_lead_count"
    /\ ~ret.raised
    /\ \E c \in Campaigns : calls[c].leads = 2 /\ LeadsOf(stats, c) = 1

\* what the tables hold about lead i
CreatedEventsOf(es, i) ==
    {k \in 1..Len(es) : es[k].event_type = LEAD_CREATED /\ es[k].aggregate_id = i}
CrmTasksOf(ts, i) ==
    {k \in 1..Len(ts) : ts[k].task_type = SEND_TO_CRM /\ ts[k].payload.lead_id = i}

\* a CRM integration with an endpoint is configured for the landing or, the
\* landing having none, for the campaign
CrmConfigured(landing_id, campaign_id) ==
    \/ landing_crm_mappings[landing_id] # NoneStr
    \/ campaign_id # NoneStr /\ campaign_crm_mappings[campaign_id] # NoneStr

\* C25 (lead creation): a lead-creation request writes its snapshot before
\* its LEAD_CREATED event and the event before its send-to-CRM task; when it
\* completes there is one snapshot of the new lead with status "new", exactly
\* one LEAD_CREATED event with the lead's id as aggregate_id, and exactly one
\* send-to-CRM task for the lead if a CRM with an endpoint is configured for
\* the landing/campaign, and none otherwise.
C25_LeadCreationOrder ==
    [][\A r \in Slots :
          /\ flight'[r].op = "create_lead" =>
                LET i == flight'[r].lead_id
                IN /\ i \in 1..Len(leads')
                   /\ leads'[i].status = "new"
                   /\ CrmTasksOf(tasks', i) = {}
                   /\ Cardinality(CreatedEventsOf(events', i)) =
                         IF flight'[r].at = "task" THEN 1 ELSE 0
          /\ (flight[r].op = "create_lead" /\ flight'[r] = Idle) =>
                LET i == flight[r].lead_id
                IN /\ ret'.op = "create_lead" /\ ~ret'.raised /\ ret'.arg = i
                   /\ i = Len(leads')
                   /\ leads'[i].status = "new"
                   /\ leads'[i].landing_id = flight[r].landing_id
                   /\ leads'[i].campaign_id = flight[r].campaign_id
                   /\ Cardinality(CreatedEventsOf(events', i)) = 1
                   /\ Cardinality(CrmTasksOf(tasks', i)) =
                         IF CrmConfigured(flight[r].landing_id, flight[r].campaign_id)
                         THEN 1 ELSE 0
                   /\ \A k \in CrmTasksOf(tasks', i) :
                         tasks'[k].status = PENDING /\ tasks'[k].attempts = 0]_vars

\* C25 witness: a request for a landing without CRM and a campaign with one
\* has completed, and its task waits in the queue
C25_Witness ==
    /\ flight["r1"] = Idle
    /\ ret.op = "create_lead"
    /\ ~ret.raised
    /\ landing_crm_mappings[leads[ret.arg].landing_id] = NoneStr
    /\ CrmTasksOf(tasks, ret.arg) # {}
    /\ CreatedEventsOf(events, ret.arg) # {}

\* the status a lead's latest event implies; the log is in created_at order,
\* and a conversion event says nothing about the lead's status
AggregateEvents(i) ==
    {k \in 1..Len(events) :
        /\ events[k].aggregate_id = i
        /\ events[k].event_type \in {LEAD_CREATED, LEAD_SENT_TO_CRM, PAYMENT_REGISTERED}}
LatestEvent(i) ==
    events[CHOOSE k \in AggregateEvents(i) : \A j \in AggregateEvents(i) : j <= k]
StatusImplied(event_type) ==
    CASE event_type = LEAD_CREATED -> "new"
      [] event_type = LEAD_SENT_TO_CRM -> "sent_to_crm"
      [] event_type = PAYMENT_REGISTERED -> "paid"
      [] OTHER -> NoneStr
Quiescent ==
    /\ \A r \in Slots : flight[r] = Idle
    /\ \A w \in Workers : pc[w] = "poll"

\* C26 (snapshot reconstructible): whenever no request and no task execution
\* is in progress, every lead's status is the one implied by the latest event
\* of its aggregate (LEAD_CREATED: new, LEAD_SENT_TO_CRM: sent_to_crm,
\* PAYMENT_REGISTERED: paid), also when a payment webhook and the send-to-CRM
\* task of the same lead ran with their commits interleaved.
C26_SnapshotFollowsLog ==
    Quiescent =>
        \A i \in 1..Len(leads) :
            /\ AggregateEvents(i) # {}
            /\ leads[i].status = StatusImplied(LatestEvent(i).event_type)

\* the fields update_task_status may write besides status and attempts,
\* by the status written
TiedFields(status) ==
    CASE status = PROCESSING -> {"started_at"}
      [] status = COMPLETED -> {"completed_at", "result"}
      [] status = FAILED -> {"error_message"}
      [] OTHER -> {}
StatusFields == {"started_at", "completed_at", "result", "error_message"}

C29_ReferentialIntegrity ==
    /\ [](/\ \A k \in 1..Len(events) : events[k].aggregate_id \in 1..Len(leads)
          /\ \A k \in 1..Len(tasks) : tasks[k].payload.lead_id \in 1..Len(leads))
    /\ [][/\ Len(leads') >= Len(leads)
          /\ \A i \in 1..Len(leads) :
                /\ leads'[i].landing_id = leads[i].landing_id
                /\ leads'[i].campaign_id = leads[i].campaign_id]_vars

\* C29 witness: the log holds events of creation, sending and payment and
\* the queue holds a task of each type, all for a stored lead
C29_Witness ==
    /\ \E k \in 1..Len(events) : events[k].event_type = LEAD_SENT_TO_CRM
    /\ \E k \in 1..Len(events) : events[k].event_type = PAYMENT_REGISTERED
    /\ \E k \in 1..Len(tasks) : tasks[k].task_type = SEND_TO_CRM
    /\ \E k \in 1..Len(tasks) : tasks[k].task_type = SEND_TO_YANDEX_DIRECT
    /\ \A k \in 1..Len(tasks) : tasks[k].payload.lead_id \in 1..Len(leads)

\* the LEAD_SENT_TO_CRM events of the lead a task is for
SentEventsOf(es, ts, i) ==
    {k \in 1..Len(es) : /\ es[k].event_type = LEAD_SENT_TO_CRM
                        /\ es[k].aggregate_id = ts[i].payload.lead_id}
\* the loop's handler ran for task i in this step
Executed(i) == executions'[i] = executions[i] + 1

\* C30 (at most one success): with one worker loop and no storage errors, a
\* send-to-CRM task gets a 2xx answer at most once and at most one
\* LEAD_SENT_TO_CRM event is appended for it: an execution that gets a 2xx
\* answer finds no such event yet, the task is then written completed, and
\* the handler of a completed task is never executed again.
C30_AtMostOneSuccess ==
    /\ [](\A i \in 1..Len(tasks) :
             tasks[i].task_type = SEND_TO_CRM =>
                Cardinality(SentEventsOf(events, tasks, i)) <= 1)
    /\ [][\A i \in 1..Len(tasks) :
             /\ tasks[i].status = COMPLETED =>
                   tasks'[i].status = COMPLETED /\ ~Executed(i)
             /\ tasks[i].task_type = SEND_TO_CRM =>
                   /\ (Executed(i) /\ Is2xx(answer'[TheLoop])) =>
                         SentEventsOf(events, tasks, i) = {}
                   /\ (pc[TheLoop] = "finish" /\ pc'[TheLoop] # "finish"
                         /\ InHand = i /\ Is2xx(answer[TheLoop])) =>
                         tasks'[i].status = COMPLETED]_vars

\* C30 witness: a send-to-CRM task is completed with its one event in the
\* log, and the loop has since executed a task that was enqueued later
C30_Witness ==
    \E i, j \in 1..Len(tasks) :
        /\ tasks[i].task_type = SEND_TO_CRM
        /\ tasks[i].status = COMPLETED
        /\ Cardinality(SentEventsOf(events, tasks, i)) = 1
        /\ tasks[j].scheduled_at > tasks[i].completed_at
        /\ executions[j] >= 1
        /\ executions[i] >= 1

\* C31 (lead lifecycle is monotonic): once a lead's status is "paid", no
\* step changes it; in particular a send-to-CRM task of the lead that
\* succeeds after the payment webhook does not make it "sent_to_crm" again.
C31_PaidIsFinal ==
    [][\A i \in 1..Len(leads) :
          leads[i].status = "paid" => leads'[i].status = "paid"]_vars

=============================================================================
